---- MODULE Spec2Model ----
(***************************************************************************)
(* A model of the pools package (pool.go, poolrequest.go, policy.go and    *)
(* the offsetData buffer): one control loop (runPool) owning the buffer,   *)
(* one Feed forwarding task, and Read sessions, each made of a Read task   *)
(* and of the task currently holding the session's request.                *)
(*                                                                         *)
(* A Go select with several ready cases takes any one of them, so every    *)
(* ready case is a separate enabled action.  A send on a closed channel    *)
(* is a ready case too: taking it panics and ends the whole process.       *)
(***************************************************************************)
EXTENDS Integers, Sequences, FiniteSets, TLC

\* ------------------------------------------------------------------ bounds
NumSessions == 2          \* Read sessions that may be started
SeedLen == 2              \* elements given to NewPool
MaxFeed == 1              \* elements the producer stream may supply
MaxStart == 1             \* largest offset a Read is started at
PolicyCount == 2          \* Policy.Count given to NewPool
MaxCancels == 1           \* Read contexts that may be cancelled
MaxStalls == 1            \* consumers that may stop receiving
MaxPolicySize == 4        \* largest Policy.Size NewPool is tried with
MaxPolicyCount == 5       \* largest |Policy.Count| NewPool is tried with
MaxAppends == 3           \* elements appended to a buffer used on its own
MaxElem == 3              \* values those elements are drawn from
ElemSize == 2             \* unsafe.Sizeof of the element type T

requestsCap == 10         \* make(chan request[T], 10)

Sessions == 1..NumSessions
StartOffsets == (-1)..MaxStart
Seed == [i \in 1..SeedLen |-> i]
NoGate == 0               \* p.waitLock == nil

VARIABLES
    poolCancelled,   \* the governing ctx given to NewPool is cancelled
    justCancelled,   \* history: the last step was that cancellation
    loopPc,          \* runPool: "run", then its deferred closes, then "exited"
    panicked,        \* a goroutine panicked: the process is gone
    data, offset,    \* offsetData.data, offsetData.offset
    appended,        \* history: every element ever held, by global offset
    fedEvents,       \* history: element-arrival events the loop has handled
    waitLock,        \* p.waitLock: NoGate or the id of the live gate
    gateGen,         \* gates made so far
    closedGates,     \* gates closed so far
    requests,        \* p.requests: the buffered channel of sessions
    fpc, fitem,      \* Feed task: position, item in hand
    produced,        \* items the producer stream has supplied
    rpc,             \* Read task position
    hold,            \* where the session's request is
    ctxCancelled,    \* the ctx given to Read is cancelled
    roffset,         \* requestImpl.offset
    additions,       \* requestImpl.additions
    gate,            \* the gate a wait task was given
    slice, idx,      \* PostData: the slice being pushed, elements pushed
    out,             \* history: elements the consumer received, kept while
                     \* the Read ctx is live
    outClosed,       \* the stream returned by Read is closed
    stalled,         \* the consumer has stopped receiving for good
    gotErr,          \* the Read task received from the error sink
    np,              \* NewPool: "call", "fatal" (log.Fatalln) or "returned"
    given,           \* the Policy given to NewPool
    waited,          \* a WaitForClose call has returned
    justReset        \* history: the session the last step applied
                     \* ResetOffset to, or 0

loopVars == <<loopPc, panicked>>
bufVars == <<data, offset, appended, fedEvents>>
gateVars == <<waitLock, gateGen, closedGates>>
feedVars == <<fpc, fitem, produced>>
rqVars == <<roffset, additions>>
postVars == <<slice, idx>>
envVars == <<ctxCancelled, stalled>>
readVars == <<rpc, outClosed, gotErr>>
callVars == <<np, given, waited>>
vars == <<callVars, justReset, poolCancelled, justCancelled, loopVars,
          bufVars, gateVars, requests,
          feedVars, rqVars, postVars, envVars, readVars, hold, gate, out>>

\* ------------------------------------------------------------- channels
\* runPool's deferred closes run in the order done, feed, requests.
doneClosed == loopPc \in {"closeFeed", "closeRequests", "exited"}
feedClosed == loopPc \in {"closeRequests", "exited"}
requestsClosed == loopPc = "exited"

\* ---------------------------------------------------------------- policy
IsConstrainded_sizeOnly(pl) == pl.Size > 0

IsConstrainded(pl) == pl.Size > 0 \/ pl.Count > 0
policy == [Size |-> 0, Count |-> PolicyCount]

\* Size is a uint64, Count an int.
Policies == [Size : 0..MaxPolicySize, Count : (-MaxPolicyCount)..MaxPolicyCount]

\* ------------------------------------------------------------ offsetData
Length(d) == Len(d)

IndexOf(d, off, o) ==
    IF o < off THEN -1
    ELSE IF o - off >= Len(d) THEN -1
    ELSE o - off

LengthFrom_fromBase(d, off, o) ==
    LET i == IF IndexOf(d, off, o) < 0 THEN 0 ELSE IndexOf(d, off, o)
    IN  Len(d) - i

LengthFrom(d, off, o) ==
    IF IndexOf(d, off, o) < 0 THEN 0 ELSE Len(d) - IndexOf(d, off, o)

elementSize(d) == IF Len(d) = 0 THEN 0 ELSE ElemSize

Size(d) == IF Len(d) = 0 THEN 0 ELSE elementSize(d) * Len(d)

SliceFrom(d, off, o) ==
    LET i == IF IndexOf(d, off, o) < 0 THEN 0 ELSE IndexOf(d, off, o)
    IN  SubSeq(d, i + 1, Len(d))

\* --------------------------------------------------------------- request
Offset_noAdditions(s) == roffset[s]

Offset(s) == roffset[s] + additions[s]

ResetOffset_noCommit(s, o) == UNCHANGED rqVars

ResetOffset(s, o) ==
    /\ roffset' = [roffset EXCEPT ![s] = o]
    /\ additions' = [additions EXCEPT ![s] = 0]

\* ------------------------------------------------------------------ Init
Init ==
    /\ IsConstrainded(policy)
    /\ poolCancelled = FALSE
    /\ justCancelled = FALSE
    /\ loopPc = "run"
    /\ panicked = FALSE
    /\ data = Seed
    /\ offset = 0
    /\ appended = Seed
    /\ fedEvents = 0
    /\ waitLock = NoGate
    /\ gateGen = 0
    /\ closedGates = {}
    /\ requests = <<>>
    /\ fpc = "idle"
    /\ fitem = 0
    /\ produced = 0
    /\ rpc = [s \in Sessions |-> "idle"]
    /\ hold = [s \in Sessions |-> "none"]
    /\ ctxCancelled = [s \in Sessions |-> FALSE]
    /\ roffset = [s \in Sessions |-> 0]
    /\ additions = [s \in Sessions |-> 0]
    /\ gate = [s \in Sessions |-> NoGate]
    /\ slice = [s \in Sessions |-> <<>>]
    /\ idx = [s \in Sessions |-> 0]
    /\ out = [s \in Sessions |-> <<>>]
    /\ outClosed = [s \in Sessions |-> FALSE]
    /\ stalled = [s \in Sessions |-> FALSE]
    /\ gotErr = [s \in Sessions |-> FALSE]
    /\ np = "returned"
    /\ given = policy
    /\ waited = FALSE
    /\ justReset = 0

Alive == ~panicked

Count(f) == Cardinality({s \in Sessions : f[s]})

\* The process panics: a send taken on a closed channel.
Panic ==
    /\ panicked' = TRUE
    /\ justCancelled' = FALSE
    /\ justReset' = 0
    /\ UNCHANGED callVars
    /\ UNCHANGED <<poolCancelled, loopPc, bufVars, gateVars, requests,
                   feedVars, rqVars, postVars, envVars, readVars, hold, gate,
                   out>>

\* ----------------------------------------------------------- environment
CancelPool ==
    /\ Alive /\ ~poolCancelled
    /\ poolCancelled' = TRUE
    /\ justCancelled' = TRUE
    /\ justReset' = 0
    /\ UNCHANGED callVars
    /\ UNCHANGED <<loopVars, bufVars, gateVars, requests, feedVars, rqVars,
                   postVars, envVars, readVars, hold, gate, out>>

CancelSession(s) ==
    /\ Alive /\ ~ctxCancelled[s] /\ rpc[s] # "idle"
    /\ Count(ctxCancelled) < MaxCancels
    /\ ctxCancelled' = [ctxCancelled EXCEPT ![s] = TRUE]
    /\ out' = [out EXCEPT ![s] = <<>>]
    /\ justCancelled' = FALSE
    /\ justReset' = 0
    /\ UNCHANGED callVars
    /\ UNCHANGED <<poolCancelled, loopVars, bufVars, gateVars, requests,
                   feedVars, rqVars, postVars, stalled, readVars, hold, gate>>

\* The consumer stops receiving.  It is decided while a push is on offer:
\* the only time a consumer's willingness is looked at.
ConsumerStall(s) ==
    /\ Alive /\ ~stalled[s] /\ hold[s] = "post"
    /\ Count(stalled) < MaxStalls
    /\ stalled' = [stalled EXCEPT ![s] = TRUE]
    /\ justCancelled' = FALSE
    /\ justReset' = 0
    /\ UNCHANGED callVars
    /\ UNCHANGED <<poolCancelled, loopVars, bufVars, gateVars, requests,
                   feedVars, rqVars, postVars, ctxCancelled, readVars, hold,
                   gate, out>>

\* WaitForClose: <-p.done.  The call and its blocking leave no trace; the
\* step is its return.
WaitForClose ==
    /\ Alive /\ doneClosed /\ ~waited
    /\ waited' = TRUE
    /\ justCancelled' = FALSE
    /\ justReset' = 0
    /\ UNCHANGED <<np, given, poolCancelled, loopVars, bufVars, gateVars,
                   requests, feedVars, rqVars, postVars, envVars, readVars,
                   hold, gate, out>>

\* ------------------------------------------------------------------ Feed
FeedUnchanged ==
    /\ justCancelled' = FALSE
    /\ justReset' = 0
    /\ UNCHANGED callVars
    /\ UNCHANGED <<poolCancelled, loopVars, bufVars, gateVars, requests,
                   rqVars, postVars, envVars, readVars, hold, gate, out>>

Feed ==
    /\ Alive /\ fpc = "idle"
    /\ fpc' = "recv"
    /\ UNCHANGED <<fitem, produced>>
    /\ FeedUnchanged

\* outer select: case t, ok := <-ch with ok
FeedRecv ==
    /\ Alive /\ fpc = "recv" /\ produced < MaxFeed
    /\ produced' = produced + 1
    /\ fitem' = SeedLen + produced + 1
    /\ fpc' = "send"
    /\ FeedUnchanged

\* either select: case <-ctx.Done(), whenever the ctx given to Feed fires
\* (only this task watches it); outer select: the producer stream is closed
FeedStopped ==
    /\ Alive /\ fpc \in {"recv", "send"} /\ ~doneClosed
    /\ fpc' = "returned"
    /\ fitem' = 0
    /\ UNCHANGED produced
    /\ FeedUnchanged

\* either select: case <-p.done
FeedAborted ==
    /\ Alive /\ fpc \in {"recv", "send"} /\ doneClosed
    /\ fpc' = "returned"
    /\ fitem' = 0
    /\ UNCHANGED produced
    /\ FeedUnchanged

\* inner select: case p.feed <- t taken after close(p.feed)
FeedSendPanic ==
    /\ Alive /\ fpc = "send" /\ feedClosed
    /\ Panic

\* ------------------------------------------------- wait gate (pool.go)
\* getWaitLock: the gate a parking session is given, made if there is none.
getWaitLock_alwaysNew == gateGen + 1

getWaitLock == IF waitLock = NoGate THEN gateGen + 1 ELSE waitLock

releaseWaitLock_noClose ==
    /\ waitLock' = NoGate
    /\ UNCHANGED <<gateGen, closedGates>>

releaseWaitLock ==
    /\ closedGates' = IF waitLock # NoGate THEN closedGates \cup {waitLock}
                      ELSE closedGates
    /\ waitLock' = NoGate
    /\ UNCHANGED gateGen

\* --------------------------------------------------------------- runPool
\* The loop is at its select; nothing else runs on the loop's goroutine.
runPoolSelect_inlineDelivery ==
    /\ ~panicked /\ loopPc = "run"
    /\ \A s \in Sessions : hold[s] # "post"

runPoolSelect == ~panicked /\ loopPc = "run"

LoopUnchanged ==
    /\ justCancelled' = FALSE
    /\ justReset' = 0
    /\ UNCHANGED callVars
    /\ UNCHANGED <<poolCancelled, panicked, bufVars, gateVars, requests,
                   feedVars, rqVars, postVars, envVars, readVars, hold, gate,
                   out>>

\* case <-ctx.Done(): return; the first deferred call closes p.done
LoopShutdown ==
    /\ runPoolSelect /\ poolCancelled
    /\ loopPc' = "closeFeed"
    /\ LoopUnchanged

\* deferred close(p.feed)
LoopCloseFeed ==
    /\ Alive /\ loopPc = "closeFeed"
    /\ loopPc' = "closeRequests"
    /\ LoopUnchanged

\* deferred close(p.requests)
LoopCloseRequests ==
    /\ Alive /\ loopPc = "closeRequests"
    /\ loopPc' = "exited"
    /\ LoopUnchanged

\* case t := <-p.feed: data.Append(t); p.releaseWaitLock()
\* (the rendezvous with the Feed task's p.feed <- t; applyPolicy is not
\* called here, nor anywhere else)
LoopFeed ==
    /\ runPoolSelect /\ fpc = "send"
    /\ data' = Append(data, fitem)
    /\ appended' = Append(appended, fitem)
    /\ fedEvents' = fedEvents + 1
    /\ releaseWaitLock
    /\ fpc' = "recv"
    /\ fitem' = 0
    /\ justCancelled' = FALSE
    /\ justReset' = 0
    /\ UNCHANGED callVars
    /\ UNCHANGED <<poolCancelled, loopVars, offset, requests, produced,
                   rqVars, postVars, envVars, readVars, hold, gate, out>>

\* case rq := <-p.requests: resolve a negative offset, then park or deliver
LoopRequest ==
    /\ runPoolSelect /\ requests # <<>>
    /\ LET s == Head(requests)
           neg == Offset(s) < 0
           rqOff == IF neg THEN offset ELSE Offset(s)
           park == LengthFrom(data, offset, rqOff) = 0
       IN  /\ requests' = Tail(requests)
           /\ IF neg THEN ResetOffset(s, rqOff) ELSE UNCHANGED rqVars
           /\ justReset' = IF neg THEN s ELSE 0
           /\ IF park
              THEN /\ hold' = [hold EXCEPT ![s] = "wait"]
                   /\ gate' = [gate EXCEPT ![s] = getWaitLock]
                   /\ waitLock' = getWaitLock
                   /\ gateGen' = IF waitLock = NoGate THEN gateGen + 1
                                 ELSE gateGen
                   /\ UNCHANGED <<slice, idx>>
              ELSE /\ hold' = [hold EXCEPT ![s] = "post"]
                   /\ slice' = [slice EXCEPT
                                  ![s] = SliceFrom(data, offset, rqOff)]
                   /\ idx' = [idx EXCEPT ![s] = 0]
                   /\ UNCHANGED <<gate, waitLock, gateGen>>
    /\ justCancelled' = FALSE
    /\ UNCHANGED callVars
    /\ UNCHANGED <<poolCancelled, loopVars, bufVars, closedGates, feedVars,
                   envVars, readVars, out>>

\* ------------------------------------------------------------------ Read
\* What no step of a session's own tasks changes.
SessUnchanged ==
    /\ justCancelled' = FALSE
    /\ justReset' = 0
    /\ UNCHANGED callVars
    /\ UNCHANGED <<poolCancelled, loopVars, bufVars, gateVars, feedVars,
                   envVars>>

\* Read makes the stream and the request; its task then calls submitRequest.
Read(s, o) ==
    /\ Alive /\ rpc[s] = "idle"
    /\ rpc' = [rpc EXCEPT ![s] = "submit"]
    /\ hold' = [hold EXCEPT ![s] = "submit"]
    /\ roffset' = [roffset EXCEPT ![s] = o]
    /\ UNCHANGED <<requests, additions, postVars, outClosed, gotErr, gate,
                   out>>
    /\ SessUnchanged

\* The Read task goes on to its select when its own submitRequest returns.
AfterSubmit(s) == IF rpc[s] = "submit" THEN [rpc EXCEPT ![s] = "select"]
                  ELSE rpc

\* submitRequest: case <-rq.Context().Done(): return
SubmitCancelled(s) ==
    /\ Alive /\ hold[s] = "submit" /\ ctxCancelled[s]
    /\ hold' = [hold EXCEPT ![s] = "gone"]
    /\ rpc' = AfterSubmit(s)
    /\ UNCHANGED <<requests, rqVars, postVars, outClosed, gotErr, gate, out>>
    /\ SessUnchanged

\* submitRequest: case <-p.done: the caller now blocks in
\* rq.PostError() <- err until the Read task receives
SubmitAborted(s) ==
    /\ Alive /\ hold[s] = "submit" /\ doneClosed
    /\ hold' = [hold EXCEPT ![s] = "werr"]
    /\ UNCHANGED <<requests, rqVars, postVars, readVars, gate, out>>
    /\ SessUnchanged

SubmitSend_twice(s) ==
    /\ Alive /\ hold[s] = "submit"
    /\ ~requestsClosed /\ Len(requests) + 1 < requestsCap
    /\ requests' = Append(Append(requests, s), s)
    /\ hold' = [hold EXCEPT ![s] = "queued"]
    /\ rpc' = AfterSubmit(s)
    /\ UNCHANGED <<rqVars, postVars, outClosed, gotErr, gate, out>>
    /\ SessUnchanged

\* submitRequest: case p.requests <- rq with room in the channel
SubmitSend(s) ==
    /\ Alive /\ hold[s] = "submit"
    /\ ~requestsClosed /\ Len(requests) < requestsCap
    /\ requests' = Append(requests, s)
    /\ hold' = [hold EXCEPT ![s] = "queued"]
    /\ rpc' = AfterSubmit(s)
    /\ UNCHANGED <<rqVars, postVars, outClosed, gotErr, gate, out>>
    /\ SessUnchanged

\* submitRequest: case p.requests <- rq taken after close(p.requests)
SubmitPanic(s) ==
    /\ Alive /\ hold[s] = "submit" /\ requestsClosed
    /\ Panic

\* Read's select: case <-ctx.Done(): return, and the deferred close(out)
ReadCancelled(s) ==
    /\ Alive /\ rpc[s] = "select" /\ ctxCancelled[s]
    /\ rpc' = [rpc EXCEPT ![s] = "closed"]
    /\ outClosed' = [outClosed EXCEPT ![s] = TRUE]
    /\ UNCHANGED <<requests, rqVars, postVars, gotErr, hold, gate, out>>
    /\ SessUnchanged

\* Read's select: case err := <-errs (the rendezvous with a task blocked in
\* rq.PostError() <- err), return, and the deferred close(out)
ReadError(s) ==
    /\ Alive /\ rpc[s] = "select" /\ hold[s] = "werr"
    /\ rpc' = [rpc EXCEPT ![s] = "closed"]
    /\ outClosed' = [outClosed EXCEPT ![s] = TRUE]
    /\ gotErr' = [gotErr EXCEPT ![s] = TRUE]
    /\ hold' = [hold EXCEPT ![s] = "gone"]
    /\ UNCHANGED <<requests, rqVars, postVars, gate, out>>
    /\ SessUnchanged

\* ------------------------------------------------------- waitAndResubmit
\* The session's wait task is blocked in its select, the gate still open.
Parked(s) == hold[s] = "wait" /\ gate[s] \notin closedGates

WaitLeaves(s, to) ==
    /\ hold' = [hold EXCEPT ![s] = to]
    /\ gate' = [gate EXCEPT ![s] = NoGate]
    /\ UNCHANGED <<requests, rqVars, postVars, readVars, out>>
    /\ SessUnchanged

\* case <-rq.Context().Done(): return
WaitCancelled(s) ==
    /\ Alive /\ hold[s] = "wait" /\ ctxCancelled[s]
    /\ WaitLeaves(s, "gone")

\* case <-p.done: the task now blocks in rq.PostError() <- err
WaitAborted(s) ==
    /\ Alive /\ hold[s] = "wait" /\ doneClosed
    /\ WaitLeaves(s, "werr")

\* case <-waitLock: p.submitRequest(rq)
WaitWoken(s) ==
    /\ Alive /\ hold[s] = "wait" /\ gate[s] \in closedGates
    /\ WaitLeaves(s, "submit")

\* ------------------------------------------- postAndResubmit / PostData
Pushing(s) == hold[s] = "post" /\ idx[s] < Len(slice[s])

\* case rq.ch <- t: count++ (the rendezvous with the consumer's receive);
\* after the last element, rq.additions += count and PostData returns
Push(s) ==
    /\ Alive /\ Pushing(s)
    /\ ~outClosed[s] /\ ~stalled[s]
    /\ out' = IF ctxCancelled[s] THEN out
              ELSE [out EXCEPT ![s] = Append(@, slice[s][idx[s] + 1])]
    /\ IF idx[s] + 1 = Len(slice[s])
       THEN /\ additions' = [additions EXCEPT ![s] = @ + idx[s] + 1]
            /\ hold' = [hold EXCEPT ![s] = "submit"]
            /\ slice' = [slice EXCEPT ![s] = <<>>]
            /\ idx' = [idx EXCEPT ![s] = 0]
       ELSE /\ idx' = [idx EXCEPT ![s] = @ + 1]
            /\ UNCHANGED <<additions, hold, slice>>
    /\ UNCHANGED <<requests, roffset, readVars, gate>>
    /\ SessUnchanged

\* case rq.ch <- t taken after the Read task's close(out)
PushPanic(s) ==
    /\ Alive /\ Pushing(s) /\ outClosed[s]
    /\ Panic

\* case <-rq.Context().Done(): return, before rq.additions += count
PostCancelled(s) ==
    /\ Alive /\ Pushing(s) /\ ctxCancelled[s]
    /\ hold' = [hold EXCEPT ![s] = "submit"]
    /\ slice' = [slice EXCEPT ![s] = <<>>]
    /\ idx' = [idx EXCEPT ![s] = 0]
    /\ UNCHANGED <<requests, rqVars, readVars, gate, out>>
    /\ SessUnchanged

\* ------------------------------------------------------------------ Next
Next ==
    \/ CancelPool
    \/ WaitForClose
    \/ \E s \in Sessions : CancelSession(s)
    \/ \E s \in Sessions : ConsumerStall(s)
    \/ Feed
    \/ FeedRecv
    \/ FeedStopped
    \/ FeedAborted
    \/ FeedSendPanic
    \/ LoopShutdown
    \/ LoopCloseFeed
    \/ LoopCloseRequests
    \/ LoopFeed
    \/ LoopRequest
    \/ \E s \in Sessions : \E o \in StartOffsets : Read(s, o)
    \/ \E s \in Sessions : SubmitCancelled(s)
    \/ \E s \in Sessions : SubmitAborted(s)
    \/ \E s \in Sessions : SubmitSend(s)
    \/ \E s \in Sessions : SubmitPanic(s)
    \/ \E s \in Sessions : ReadCancelled(s)
    \/ \E s \in Sessions : ReadError(s)
    \/ \E s \in Sessions : WaitCancelled(s)
    \/ \E s \in Sessions : WaitAborted(s)
    \/ \E s \in Sessions : WaitWoken(s)
    \/ \E s \in Sessions : Push(s)
    \/ \E s \in Sessions : PushPanic(s)
    \/ \E s \in Sessions : PostCancelled(s)

Spec == Init /\ [][Next]_vars

\* The behaviours in which no Read context is ever cancelled, under the
\* scheduling Go gives: a goroutine that can run does run, and a select
\* takes any one of its ready cases.  The environment (the pool's ctx, the
\* producer, the callers of Feed and Read, a consumer giving up) owes nothing.
NextLive ==
    \/ CancelPool
    \/ WaitForClose
    \/ \E s \in Sessions : ConsumerStall(s)
    \/ Feed
    \/ FeedRecv
    \/ FeedStopped
    \/ FeedAborted
    \/ FeedSendPanic
    \/ LoopShutdown
    \/ LoopCloseFeed
    \/ LoopCloseRequests
    \/ LoopFeed
    \/ LoopRequest
    \/ \E s \in Sessions : \E o \in StartOffsets : Read(s, o)
    \/ \E s \in Sessions : SubmitAborted(s)
    \/ \E s \in Sessions : SubmitSend(s)
    \/ \E s \in Sessions : SubmitPanic(s)
    \/ \E s \in Sessions : ReadError(s)
    \/ \E s \in Sessions : WaitAborted(s)
    \/ \E s \in Sessions : WaitWoken(s)
    \/ \E s \in Sessions : Push(s)

Fairness ==
    /\ WF_vars(LoopShutdown)
    /\ WF_vars(LoopCloseFeed)
    /\ WF_vars(LoopCloseRequests)
    /\ WF_vars(LoopFeed)
    /\ WF_vars(LoopRequest)
    /\ WF_vars(FeedAborted)
    /\ \A s \in Sessions :
         /\ WF_vars(SubmitAborted(s))
         /\ WF_vars(SubmitSend(s))
         /\ WF_vars(ReadError(s))
         /\ WF_vars(WaitAborted(s))
         /\ WF_vars(WaitWoken(s))
         /\ WF_vars(Push(s))

LiveSpec == Init /\ [][NextLive]_vars /\ Fairness

TypeOK ==
    /\ loopPc \in {"none", "run", "closeFeed", "closeRequests", "exited"}
    /\ np \in {"call", "fatal", "returned"}
    /\ given \in Policies
    /\ fpc \in {"idle", "recv", "send", "returned"}
    /\ \A s \in Sessions :
         /\ rpc[s] \in {"idle", "submit", "select", "closed"}
         /\ hold[s] \in {"none", "submit", "queued", "wait", "post", "werr",
                         "gone"}
         /\ idx[s] <= Len(slice[s])

\* ------------------------------------------------ offsetData on its own
\* The buffer's mutators applied in any order to the buffer NewPool makes
\* (the seed at offset 0).  Nothing else moves.
Elems == 1..MaxElem
TrimCounts == (-1)..(SeedLen + MaxAppends + 1)
TrimSizes == 0..(ElemSize * (SeedLen + MaxAppends) + 1)

BufUnchanged ==
    UNCHANGED <<callVars, justReset, poolCancelled, justCancelled, loopVars,
                fedEvents, gateVars, requests, feedVars, rqVars, postVars,
                envVars, readVars, hold, gate, out>>

\* Append: d.data = append(d.data, t...)
DataAppend(t) ==
    /\ Len(appended) < SeedLen + MaxAppends
    /\ data' = Append(data, t)
    /\ appended' = Append(appended, t)
    /\ UNCHANGED offset
    /\ BufUnchanged

\* TrimToLength: the elements cut from the head, 0 when count >= len
TrimCut(d, count) ==
    IF count >= Len(d) THEN 0
    ELSE Len(d) - (IF count < 0 THEN 0 ELSE count)

TrimToLength_keepsOffset(count) ==
    /\ data' = SubSeq(data, TrimCut(data, count) + 1, Len(data))
    /\ UNCHANGED <<offset, appended>>
    /\ BufUnchanged

TrimToLength(count) ==
    /\ offset' = offset + TrimCut(data, count)
    /\ data' = SubSeq(data, TrimCut(data, count) + 1, Len(data))
    /\ UNCHANGED appended
    /\ BufUnchanged

\* TrimToSize: nothing when the data is empty or fits, else
\* d.TrimToLength(int(size / esize))
TrimToSize(size) ==
    IF Size(data) = 0 \/ elementSize(data) = 0 \/ size >= Size(data)
    THEN UNCHANGED vars
    ELSE TrimToLength(size \div elementSize(data))

BufNext ==
    \/ \E t \in Elems : DataAppend(t)
    \/ \E n \in TrimCounts : TrimToLength(n)
    \/ \E z \in TrimSizes : TrimToSize(z)

BufSpec == Init /\ [][BufNext]_vars

\* --------------------------------------------------------------- NewPool
\* A call of NewPool with any policy: nothing is constructed yet and the
\* control loop is not started.
PolicyInit ==
    /\ np = "call"
    /\ given \in Policies
    /\ loopPc = "none"
    /\ waited = FALSE /\ justReset = 0
    /\ poolCancelled = FALSE /\ justCancelled = FALSE /\ panicked = FALSE
    /\ data = Seed /\ offset = 0 /\ appended = Seed /\ fedEvents = 0
    /\ waitLock = NoGate /\ gateGen = 0 /\ closedGates = {}
    /\ requests = <<>>
    /\ fpc = "idle" /\ fitem = 0 /\ produced = 0
    /\ rpc = [s \in Sessions |-> "idle"]
    /\ hold = [s \in Sessions |-> "none"]
    /\ ctxCancelled = [s \in Sessions |-> FALSE]
    /\ roffset = [s \in Sessions |-> 0]
    /\ additions = [s \in Sessions |-> 0]
    /\ gate = [s \in Sessions |-> NoGate]
    /\ slice = [s \in Sessions |-> <<>>]
    /\ idx = [s \in Sessions |-> 0]
    /\ out = [s \in Sessions |-> <<>>]
    /\ outClosed = [s \in Sessions |-> FALSE]
    /\ stalled = [s \in Sessions |-> FALSE]
    /\ gotErr = [s \in Sessions |-> FALSE]

\* NewPool: log.Fatalln (the process exits) on an unconstrained policy,
\* else the pool is made over the given data at offset 0 and
\* go p.runPool(...) starts the loop.
NewPool ==
    /\ np = "call"
    /\ IF ~IsConstrainded(given)
       THEN /\ np' = "fatal"
            /\ UNCHANGED loopPc
       ELSE /\ np' = "returned"
            /\ loopPc' = "run"
    /\ UNCHANGED <<given, waited, justReset, poolCancelled, justCancelled,
                   panicked, bufVars, gateVars, requests, feedVars, rqVars,
                   postVars, envVars, readVars, hold, gate, out>>

PolicyNext == NewPool

PolicySpec == PolicyInit /\ [][PolicyNext]_vars

\* ---------------------------------------------------------------- claims
IsPrefix(a, b) == Len(a) <= Len(b) /\ SubSeq(b, 1, Len(a)) = a
From(o) == SubSeq(appended, o + 1, Len(appended))
PoolRunning == ~poolCancelled /\ ~panicked
CaughtUp(s) == roffset[s] >= 0 /\ Len(out[s]) >= Len(appended) - roffset[s]
Escape(s) == ctxCancelled[s] \/ stalled[s] \/ ~PoolRunning
Blocked(s) == stalled[s] /\ Pushing(s)
Ended(s) == gotErr[s] /\ outClosed[s]

\* C1: while a session's token is not cancelled, what its consumer has
\* received is a prefix of the elements at the global offsets o, o+1, ...
\* from the offset o the session started at: no gap, duplicate or reordering.
C1_DeliveryIsPrefix ==
    \A s \in Sessions :
        ~ctxCancelled[s] =>
            IF roffset[s] < 0 THEN out[s] = <<>>
            ELSE IsPrefix(out[s], From(roffset[s]))

C1_Witness ==
    \E s \in Sessions :
        /\ ~ctxCancelled[s] /\ roffset[s] = 1 /\ out[s] = <<2, 3>>
        /\ \E t \in Sessions : ctxCancelled[t] /\ hold[t] = "post"

\* C2: while the pool runs, a session whose token is not cancelled and
\* whose consumer keeps receiving is again and again caught up with the
\* buffer: every element at or after its start offset reaches it, and it
\* does not stay parked once an element at its position exists.
C2_EventuallyDelivered ==
    \A s \in Sessions : []<>(rpc[s] = "idle" \/ Escape(s) \/ CaughtUp(s))

C2_Witness ==
    \E s \in Sessions :
        /\ PoolRunning /\ ~stalled[s] /\ closedGates # {}
        /\ roffset[s] = 0 /\ out[s] = <<1, 2, 3>> /\ hold[s] = "wait"

\* C3: with policy.Count = n > 0, once the loop has handled an
\* element-arrival event the buffer holds at most n elements and offset has
\* advanced by the number evicted.
C3_RetentionBound ==
    (policy.Count > 0 /\ fedEvents > 0) =>
        /\ Length(data) <= policy.Count
        /\ offset = Len(appended) - Length(data)

\* C4: every session parked on the wait gate at the moment the pool's ctx
\* is cancelled (its own token not cancelled) eventually receives an error
\* on its error sink and has its stream closed.
C4_ParkedSessionsEnd ==
    \A s \in Sessions :
        (justCancelled /\ Parked(s) /\ ~ctxCancelled[s])
            ~> (Ended(s) \/ ctxCancelled[s])

\* C5: while one session's delivery task is blocked on a consumer that has
\* stopped receiving, the loop still takes every queued request and every
\* element the Feed task offers, and every other session whose consumer keeps
\* receiving is still caught up again and again.
C5_NoHeadOfLineBlocking ==
    \A t \in Sessions :
        /\ []<>(~Blocked(t) \/ ~PoolRunning \/ requests = <<>>)
        /\ []<>(~Blocked(t) \/ ~PoolRunning \/ fpc # "send")
        /\ \A s \in Sessions \ {t} :
             []<>(~Blocked(t) \/ rpc[s] = "idle" \/ Escape(s) \/ CaughtUp(s))

C5_Witness ==
    \E t \in Sessions : \E s \in Sessions \ {t} :
        /\ Blocked(t) /\ idx[t] = 1 /\ slice[t] = <<1, 2>>
        /\ PoolRunning /\ out[s] = <<1, 2, 3>> /\ hold[s] = "wait"

\* C6: when PostData stops early on the cancelled token after k elements
\* were pushed, the session's Offset() has advanced by k.
C6_PartialProgressRecorded ==
    [][\A s \in Sessions :
          PostCancelled(s) => Offset(s)' = Offset(s) + idx[s]]_vars

\* C7: once a session's token is cancelled its consumer receives no
\* further element: no push is taken for a cancelled session.
C7_NoPushAfterCancel ==
    [][\A s \in Sessions : ctxCancelled[s] => ~Push(s)]_vars

\* C8: every session whose request sits in the requests channel at the
\* moment the pool's ctx is cancelled (its own token not cancelled)
\* eventually receives an error on its error sink and has its stream closed.
C8_QueuedSessionsEnd ==
    \A s \in Sessions :
        (justCancelled /\ hold[s] = "queued" /\ ~ctxCancelled[s])
            ~> (Ended(s) \/ ctxCancelled[s])

\* C9: once the pool has shut down, every stream Read has returned is
\* eventually closed, also when Read is called after done is closed.
C9_StreamsClosed ==
    \A s \in Sessions : (doneClosed /\ rpc[s] # "idle") ~> outClosed[s]

\* C10: after done is closed no delivery task stays blocked on its sink
\* for ever: each push completes or the task aborts.
C10_DeliveryEnds ==
    \A s \in Sessions :
        (doneClosed /\ Pushing(s)) ~> (~Pushing(s) \/ ctxCancelled[s])

\* C11: at the moment a WaitForClose call returns, the control loop has
\* run all its deferred closes (feed and requests are closed) and no Feed
\* task, Read task, wait task or delivery task is still running.
Drained ==
    /\ loopPc = "exited"
    /\ fpc \in {"idle", "returned"}
    /\ \A s \in Sessions :
         rpc[s] \in {"idle", "closed"} /\ hold[s] \in {"none", "gone"}

C11_WaitForCloseDrained == [][WaitForClose => Drained]_vars

\* C12: once the pool's governing ctx is cancelled, the control loop
\* handles no further element-arrival event and takes no further request.
C12_NothingHandledAfterCancel ==
    [][poolCancelled => ~(LoopFeed \/ LoopRequest)]_vars

\* C13: IsConstrainded is true iff Size > 0 or Count > 0; NewPool with
\* Size = 0 and Count <= 0 ends in log.Fatalln without starting the control
\* loop or returning a pool, and with any other policy returns a pool whose
\* loop is running.
C13_UnconstrainedFailsFast ==
    /\ IsConstrainded(given) <=> (given.Size > 0 \/ given.Count > 0)
    /\ np # "call" =>
         IF given.Size = 0 /\ given.Count <= 0
         THEN np = "fatal" /\ loopPc = "none"
         ELSE np = "returned" /\ loopPc = "run"

C13_Witness ==
    np = "fatal" /\ loopPc = "none" /\ given = [Size |-> 0, Count |-> -1]

\* C14: no task ever takes a send on p.feed or on p.requests after that
\* channel has been closed.
C14_NoSendOnClosedSubmission ==
    [][~FeedSendPanic /\ \A s \in Sessions : ~SubmitPanic(s)]_vars

\* C15: no delivery task ever takes a send on a session's output stream
\* after the Read task has closed it.
C15_NoSendOnClosedStream ==
    [][\A s \in Sessions : ~PushPanic(s)]_vars

\* C16: a session the loop finds without data is bound, in that same loop
\* step, to the live gate generation, so every parked session waits on the
\* live gate or on one already closed (no wake-up is lost) and the next
\* element-arrival event releases all of them; a gate is closed only while
\* it is the live one and is then dropped, so no generation is closed twice;
\* after an element-arrival event the loop holds no gate until a session
\* parks.
C16_GateInv ==
    /\ waitLock \notin closedGates
    /\ \A s \in Sessions :
         hold[s] = "wait" =>
            /\ gate[s] # NoGate
            /\ gate[s] = waitLock \/ gate[s] \in closedGates

C16_GateStep ==
    /\ LoopFeed =>
         /\ waitLock' = NoGate
         /\ \A s \in Sessions : hold[s] = "wait" => gate[s] \in closedGates'
    /\ closedGates' # closedGates =>
         /\ waitLock # NoGate /\ waitLock \notin closedGates
         /\ closedGates' = closedGates \cup {waitLock}
         /\ waitLock' = NoGate
    /\ (waitLock = NoGate /\ waitLock' # NoGate) =>
         \E s \in Sessions :
            hold[s] # "wait" /\ hold'[s] = "wait" /\ gate'[s] = waitLock'

C16_NoLostWakeup == []C16_GateInv /\ [][C16_GateStep]_vars

C16_Witness ==
    \E s \in Sessions : \E u \in Sessions \ {s} :
        /\ hold[s] = "wait" /\ hold[u] = "wait"
        /\ gate[s] = gate[u] /\ gate[s] \in closedGates
        /\ waitLock = NoGate /\ fedEvents = 1

\* C17: an offset below the buffer's offset (an evicted one) is told from
\* the buffer exactly like one not yet produced: IndexOf gives -1 and
\* LengthFrom gives 0, before and after every later append, so the loop's
\* test LengthFrom(rqOff) == 0 parks the request and SliceFrom, which would
\* serve it from the base, is never reached for it.
NotYetProduced == offset + Length(data)

C18_Step(s) ==
    /\ justReset' = s =>
         /\ roffset[s] < 0
         /\ roffset'[s] = offset /\ additions'[s] = 0
         /\ Offset(s)' >= 0
         /\ IF Length(data) > 0
            THEN hold'[s] = "post" /\ slice'[s] = data /\ idx'[s] = 0
            ELSE hold'[s] = "wait"
    /\ roffset'[s] # roffset[s] => rpc[s] = "idle" \/ justReset' = s
    /\ (rpc[s] # "idle" /\ Offset(s) >= 0) => Offset(s)' >= Offset(s)
    /\ (rpc[s] # "idle" /\ justReset' # s /\ Offset(s)' # Offset(s)) =>
         /\ Push(s)
         /\ Offset(s)' = Offset(s) + Len(slice[s])

C18_SentinelResolvedOnce == [][\A s \in Sessions : C18_Step(s)]_vars

C18_Witness ==
    \E s \in Sessions :
        /\ justReset = s /\ roffset[s] = 0 /\ additions[s] = 0
        /\ hold[s] = "post" /\ slice[s] = <<1, 2, 3>>

\* C19: under any sequence of Append, TrimToLength and TrimToSize the
\* offset never decreases, the element at index i is the element whose
\* global offset is offset + i (so offset + Length() is the number of
\* elements ever held), and TrimToLength(n) keeps exactly the newest
\* min(Length(), max(n, 0)) elements, advances offset by the number
\* discarded and changes nothing when Length() <= n.
Min(a, b) == IF a < b THEN a ELSE b
Max(a, b) == IF a > b THEN a ELSE b
Newest(d, k) == SubSeq(d, Len(d) - k + 1, Len(d))

C19_WindowInv ==
    /\ offset >= 0
    /\ offset + Length(data) = Len(appended)
    /\ \A i \in 1..Length(data) : data[i] = appended[offset + i]

C19_WindowStep ==
    /\ offset' >= offset
    /\ \A n \in TrimCounts :
         TrimToLength(n) =>
            LET keep == Min(Length(data), Max(n, 0))
            IN  /\ data' = Newest(data, keep)
                /\ offset' = offset + (Length(data) - keep)
                /\ Length(data) <= n => UNCHANGED <<data, offset>>

C19_Window == []C19_WindowInv /\ [][C19_WindowStep]_vars

C19_Witness ==
    /\ offset = 3 /\ Length(data) = 2 /\ Len(appended) = 5
    /\ data = Newest(appended, 2)

\* C20: a session's request is in the requests channel exactly once while
\* it is queued there and not at all while a task holds it, so the loop
\* starts a servicing task for a session only by taking its one request
\* from the channel; and the session's counters (offset, additions) are
\* written only by the place that holds the request: Read making it, the
\* loop taking it, or the delivery task completing a push.
Occurrences(s) == Cardinality({i \in 1..Len(requests) : requests[i] = s})

C20_OnePlace ==
    \A s \in Sessions :
        Occurrences(s) = IF hold[s] = "queued" THEN 1 ELSE 0

C20_HolderStep(s) ==
    /\ (hold'[s] \in {"wait", "post"} /\ hold'[s] # hold[s]) =>
         /\ LoopRequest
         /\ hold[s] = "queued" /\ Head(requests) = s
    /\ (roffset'[s] # roffset[s] \/ additions'[s] # additions[s]) =>
         \/ rpc[s] = "idle"
         \/ LoopRequest /\ hold[s] = "queued" /\ Head(requests) = s
         \/ Push(s) /\ hold[s] = "post"

C20_SingleHolder ==
    []C20_OnePlace /\ [][\A s \in Sessions : C20_HolderStep(s)]_vars

C20_Witness ==
    \E s \in Sessions : \E u \in Sessions \ {s} :
        /\ hold[s] = "queued" /\ additions[s] = 2 /\ Occurrences(s) = 1
        /\ hold[u] = "wait" /\ Occurrences(u) = 0

====
